---- MODULE Spec2Model ----
(***************************************************************************)
(* The reactive-stream core of libs-cma (src/libs-cma/src/rx): Observable, *)
(* Observer, TeardownLogic, the map operator, subscribe and the            *)
(* Unsubscribable handle.  One Observable is built, subscribed, and the    *)
(* subscribing thread, the worker thread of a deferred subscription and    *)
(* the background waiter of detach/drop are interleaved step by step.      *)
(* Spec subscribes once, to any straight-line producer; CoopSpec runs the  *)
(* producers that loop while is_active(); MultiSpec subscribes twice.      *)
(***************************************************************************)
EXTENDS Integers, Sequences, FiniteSets, TLC

(***************************************************************************)
(* Bounds of the model.                                                    *)
(***************************************************************************)
\* longest producer body, counted in observer calls and await points
MaxLen == 3
\* longest chain of map calls
MaxMaps == 2
\* longest body of a `while obs.is_active() { .. }` loop
MaxLoop == 2
\* callbacks delivered after which a loop that still reads true is not followed
MaxEmit == 2
\* longest producer body of the runs that subscribe twice
MaxShort == 1

\* subscription slots of a run; `limit` says how many subscribe calls are made
SubIds == {1, 2}

\* The engine never inspects a value or an error, so the producers are told
\* apart by tokens: the k-th next call of a body emits k (as the test
\* producers do: 1, 2, 3 and "msg {i}"), a producer passes -1 to obs.error
\* and returns Err(-2)
Signalled == -1
Returned == -2
Ok == 0
Rets == {Ok, Returned}

\* the transformation functions handed to map (operators/map.rs tests: x * 2, x + 1)
Mappers == {"f", "g"}

\* what a producer body can do, one entry per statement: call one of the
\* three callbacks of its observer or, in an async body, suspend (.await)
SyncOps == {"next", "error", "complete"}
AsyncOps == SyncOps \cup {"pending"}

SeqsUpTo(S, n) == UNION {[1..k -> S] : k \in 0..n}

\* the statements of a body with the argument each call passes
Body(p) ==
    [i \in DOMAIN p |->
        [op |-> p[i],
         v |-> CASE p[i] = "next" -> Cardinality({j \in 1..i : p[j] = "next"})
                 [] p[i] = "error" -> Signalled
                 [] OTHER -> 0]]

SyncProgs == {Body(p) : p \in SeqsUpTo(SyncOps, MaxLen)}
AsyncProgs == {Body(p) : p \in SeqsUpTo(AsyncOps, MaxLen)}

\* the producers of the runs in which one Observable is subscribed twice
ShortSyncProgs == {Body(p) : p \in SeqsUpTo(SyncOps, MaxShort)}
ShortAsyncProgs == {Body(p) : p \in SeqsUpTo(AsyncOps, MaxShort)}

\* the cooperative producers of test_unsubscribe_stops_callbacks and
\* test_unsubscribe_and_wait: while obs.is_active() { emit / suspend },
\* then (obs.complete)() or nothing, then the return value.  "while" is the
\* loop's condition, "end" its closing brace
LoopOps == {"next", "pending"}
LoopProgs ==
    {Body(<<"while">> \o b \o <<"end">> \o t) :
        b \in SeqsUpTo(LoopOps, MaxLoop) \ {<<>>}, t \in {<<>>, <<"complete">>}}
LoopHead(prog) == CHOOSE i \in DOMAIN prog : prog[i].op = "while"
LoopEnd(prog) == CHOOSE i \in DOMAIN prog : prog[i].op = "end"

VARIABLES
    obs,           \* the Observable under construction: its TeardownLogic
    limit,         \* number of subscribe calls of the run
    nsub,          \* subscribe calls made so far
    active,        \* active[s]: the Arc<AtomicBool> subscribe allocates
    hflag,         \* hflag[s]: which flag the handle holds ("shared" / "own")
    ownActive,     \* ownActive[s]: the flag Unsubscribable::ready allocates
    handle,        \* handle[s]: Option<JoinHandle> of the Unsubscribable
    hstate,        \* hstate[s]: "unborn", "live", "dropped", "unwound" (no handle)
    wstate,        \* wstate[s]: worker "none", "running", "exited", "panicked"
    wpc,           \* wpc[s]: next statement of the producer body
    wphase,        \* wphase[s]: "poll", "loaded" (wrapper read active), "errloaded"
    latch,         \* latch[s]: the value the wrapper's active.load returned
    waiter,        \* waiter[s]: background thread of detach/drop
    joins,         \* joins[s]: how often the worker's JoinHandle was joined
    mainWait,      \* 0, or the subscription whose worker the caller is joining
    delivered,     \* delivered[s]: the user callbacks invoked, in order
    unsubDone,     \* unsubDone[s]: unsubscribe() has returned on this handle
    uaw,           \* uaw[s]: unsubscribe_and_wait() "no", "waiting" or "returned"
    discarded,     \* discarded[s]: dropped with no disposal operation called before
    joinErr,       \* joinErr[s]: a join of the worker has returned Err to the caller
    producerCalls, \* invocations of the producer function
    mapperCalls,   \* applications of a mapping function
    workersStarted, \* threads spawned by spawn_driven_future
    \* loggerd: FileTraceHandler, its writer thread and the log directory
    fs,            \* fs[name]: content of the file of that name, or Absent
    chan,          \* the mpsc channel from log()/drop to the writer thread
    writer,        \* writer thread: pc, the file it holds, current_size
    log_count,     \* the shared AtomicU64
    handler,       \* FileTraceHandler: state and config.max_backups
    clock,         \* Local::now() in seconds
    hist,          \* logged, received and written messages, I/O errors so far,
                   \* and what the writer did for the latest message
    \* explor-auth: AuthService and the middleware in front of a service
    sessions,      \* AuthService.sessions: session id -> Session or NoSession
    now,           \* Utc::now()
    lastCall,      \* the latest request AuthMiddlewareService::call answered
    serviceCalls,  \* calls of the wrapped service
    authHist,      \* per session id: when login created it, whether removed
    authReply      \* what the latest login or logout returned

engineVars == <<obs, limit, nsub, active, hflag, ownActive, handle, hstate, wstate,
                wpc, wphase, latch, waiter, joins, mainWait, delivered, unsubDone,
                uaw, discarded, joinErr, producerCalls, mapperCalls, workersStarted>>
logVars == <<fs, chan, writer, log_count, handler, clock, hist>>
authVars == <<sessions, now, lastCall, serviceCalls, authHist, authReply>>
serviceVars == <<logVars, authVars>>

vars == <<engineVars, logVars, authVars>>

handleVars == <<active, hflag, ownActive, handle, hstate, waiter, joins, mainWait,
                unsubDone, uaw, discarded, joinErr>>
workerVars == <<wstate, wpc, wphase, latch>>
buildVars == <<obs, limit, nsub>>
countVars == <<producerCalls, mapperCalls, workersStarted>>

NoObs == [kind |-> "None", prog |-> <<>>, ret |-> Ok, maps |-> <<>>]

(***************************************************************************)
(* Pure parts.                                                             *)
(***************************************************************************)
\* the closures of the tests: f is |x| x * 2, g is |x| x + 1; "a;b" names the
\* closure |x| b(a(x)) written by hand
Apply(m, v) ==
    CASE m = "f" -> v * 2
      [] m = "g" -> v + 1
      [] m = "f;f" -> (v * 2) * 2
      [] m = "f;g" -> (v * 2) + 1
      [] m = "g;f" -> (v + 1) * 2
      [] m = "g;g" -> (v + 1) + 1

\* a transformation function that panics on every value: |_| panic!()
Panicking == {"boom"}

\* the chain holds a stage whose mapper panics, and the first such stage
Panics(maps) == \E k \in 1..Len(maps) : maps[k] \in Panicking
FirstPanic(maps) ==
    CHOOSE k \in 1..Len(maps) :
        maps[k] \in Panicking /\ \A j \in 1..(k - 1) : maps[j] \notin Panicking

\* let mapped = mapper(value) unwinds: observer_next(mapped) is not reached
StatementPanics(maps, o) == o.op = "next" /\ Panics(maps)

\* the first statement of the body at which the producer thread unwinds
BodyPanics(o) == \E i \in 1..Len(o.prog) : StatementPanics(o.maps, o.prog[i])
PanicPoint(o) ==
    CHOOSE i \in 1..Len(o.prog) :
        /\ StatementPanics(o.maps, o.prog[i])
        /\ \A j \in 1..(i - 1) : ~StatementPanics(o.maps, o.prog[j])

\* create_mapping_observer: next applies the stage's mapper, then calls the
\* next of the observer it wraps; the source emits into the innermost stage,
\* which is the first map call of the chain
RECURSIVE MapNextOuterFirst(_, _)
MapNextOuterFirst(maps, v) ==
    IF maps = <<>> THEN v
    ELSE Apply(Head(maps), MapNextOuterFirst(Tail(maps), v))

RECURSIVE MapNext(_, _)
MapNext(maps, v) ==
    IF maps = <<>> THEN v
    ELSE MapNext(Tail(maps), Apply(Head(maps), v))

SignalMapsAll(maps, o, i, th) ==
    [cb |-> o.op, val |-> MapNext(maps, o.v), idx |-> i, th |-> th]

\* what reaches the wrapped callback of subscribe for one producer statement
Signal(maps, o, i, th) ==
    [cb |-> o.op,
     val |-> IF o.op = "next" THEN MapNext(maps, o.v) ELSE o.v,
     idx |-> i,
     th |-> th]

\* the wrapped callback: if active.load() { (u)(v) }
WrappedPrepend(log, isActive, ev) == IF isActive THEN <<ev>> \o log ELSE log

Wrapped(log, isActive, ev) == IF isActive THEN Append(log, ev) ELSE log

\* mapper applications one statement costs
MapCost(maps, o) == IF o.op = "next" THEN Len(maps) ELSE 0

\* the error the engine forwards for a returned Err(e)
ForwardedFixed(e, i, th) == [cb |-> "error", val |-> Signalled, idx |-> i, th |-> th]

Forwarded(e, i, th) == [cb |-> "error", val |-> e, idx |-> i, th |-> th]

\* Sync branch of subscribe: (f)(&callbacks) runs the whole body with the
\* flag it has just set to true, then the returned Err is forwarded
RECURSIVE RunBody(_, _, _, _, _)
RunBody(prog, maps, i, isActive, log) ==
    IF i > Len(prog) THEN log
    ELSE RunBody(prog, maps, i + 1, isActive,
                 Wrapped(log, isActive, Signal(maps, prog[i], i, "main")))

RunSyncSwallows(o, isActive) == RunBody(o.prog, o.maps, 1, isActive, <<>>)

RunSync(o, isActive) ==
    LET body == RunBody(o.prog, o.maps, 1, isActive, <<>>)
    IN IF o.ret = Ok THEN body
       ELSE Wrapped(body, isActive, Forwarded(o.ret, Len(o.prog) + 1, "main"))

RECURSIVE SumCost(_, _, _)
SumCost(prog, maps, i) ==
    IF i > Len(prog) THEN 0 ELSE MapCost(maps, prog[i]) + SumCost(prog, maps, i + 1)

\* The observers of one subscription, told apart by the AtomicBool their
\* `active` field refers to: s is the flag subscribe allocated for
\* subscription s, 0 a flag allocated elsewhere, to which no handle stores.
\* subscribe: Observer { next, error, complete, active: active.clone() }
SubscribeObserver(s) == [active |-> s]

\* impl Clone for Observer: active: Arc::clone(&self.active)
Clone(o) == [active |-> o.active]

MappingObserverFresh(o, m) == [active |-> 0]

\* create_mapping_observer(_owned): active: Arc::clone(&observer.active)
create_mapping_observer(o, m) == [active |-> o.active]

\* the observer stage k of the map chain is handed by the stage after it (the
\* last stage by subscribe); stage 1 hands its own to the source producer
RECURSIVE StageObserver(_, _, _)
StageObserver(s, maps, k) ==
    IF k > Len(maps) THEN SubscribeObserver(s)
    ELSE create_mapping_observer(StageObserver(s, maps, k + 1), maps[k])

\* the observer the source producer gets: wrapped once by every stage
ProducerObserver(s, maps) ==
    IF maps = <<>> THEN SubscribeObserver(s)
    ELSE create_mapping_observer(StageObserver(s, maps, 2), maps[1])

\* Observer::is_active: self.active.load(SeqCst)
is_active(o) == IF o.active \in SubIds THEN active[o.active] ELSE TRUE

(***************************************************************************)
(* loggerd: the directory of the log file and rotate_log_files.            *)
(***************************************************************************)
MaxSize == 2      \* config.max_size_bytes of the runs
MaxBackups == 2   \* largest config.max_backups of the runs
MaxMsgs == 3      \* log() calls of a run
MaxClock == 1     \* seconds the wall clock advances during a run
MaxFaults == 1    \* I/O errors the operating system reports during a run

\* a name of the directory: no file, or a file holding the ids of the
\* messages written to it (0 stands for content of an earlier run)
NoFile == [exists |-> FALSE, data |-> <<>>]
File(data) == [exists |-> TRUE, data |-> data]

\* file_path, format!("{}.{}", file_path, i), format!("{}.1.{}", file_path, timestamp)
LogFile == <<"log", 0>>
Numbered(i) == <<"num", i>>
Stamped(t) == <<"ts", t>>
Names ==
    {LogFile} \cup {Numbered(i) : i \in 1..MaxBackups}
              \cup {Stamped(t) : t \in 0..MaxClock}

\* the lengths of the formatted messages
Lens == 1..(MaxSize + 1)

\* let _ = fs::remove_file(name)
remove_file(d, name) == [d EXCEPT ![name] = NoFile]

\* fs::rename(from, to): replaces the file at `to`; an error if `from` is missing
rename(d, from, to) ==
    IF d[from].exists THEN [d EXCEPT ![to] = d[from], ![from] = NoFile] ELSE d

\* for i in (1..max_backups).rev() { let _ = fs::rename(file.i, file.(i+1)) }
RECURSIVE ShiftBackups(_, _)
ShiftBackups(d, i) ==
    IF i < 1 THEN d
    ELSE ShiftBackups(rename(d, Numbered(i), Numbered(i + 1)), i - 1)

\* rotate_log_files before the archive step: remove the oldest, shift the rest
PrepareBackups(d, max_backups) ==
    ShiftBackups(IF max_backups > 0 THEN remove_file(d, Numbered(max_backups)) ELSE d,
                 max_backups - 1)

\* rotate_log_files: the archive step is fs::rename(file_path, &backup_name)?,
\* which fails if the system call does (io) or the log file is missing
rotate_log_files(d, max_backups, timestamp, io) ==
    LET shifted == PrepareBackups(d, max_backups)
    IN IF io /\ shifted[LogFile].exists
       THEN [ok |-> TRUE, fs |-> rename(shifted, LogFile, Stamped(timestamp))]
       ELSE [ok |-> FALSE, fs |-> shifted]

\* open_log_file: OpenOptions append(true).create(true)
open_log_file(d, name) == IF d[name].exists THEN d ELSE [d EXCEPT ![name] = File(<<>>)]

should_rotate_ignores_message(current_size, message_len, max_size) ==
    current_size > max_size

\* should_rotate
should_rotate(current_size, message_len, max_size) ==
    current_size + message_len > max_size

\* the step of perform_rotation at which the operating system reports an error
RotationFaults == {"none", "flush", "rename", "open"}

\* perform_rotation on the writer's locals w: flush, swap the handle for one
\* on /dev/null, rotate, reopen, reset the size; each `?` returns early
perform_rotation(w, d, max_backups, timestamp, io) ==
    IF io = "flush" THEN [ok |-> FALSE, writer |-> w, fs |-> d]
    ELSE LET r == rotate_log_files(d, max_backups, timestamp, io # "rename")
             swapped == [w EXCEPT !.file = "null"]
         IN IF ~r.ok \/ io = "open"
            THEN [ok |-> FALSE, writer |-> swapped, fs |-> r.fs]
            ELSE [ok |-> TRUE,
                  writer |-> [w EXCEPT !.file = "log", !.current_size = 0],
                  fs |-> open_log_file(r.fs, LogFile)]

\* write_message: write_all and flush on the handle the writer holds, then
\* log_count.fetch_add(1); a write to the /dev/null handle succeeds as well
write_message(w, d, count, id, io) ==
    IF ~io THEN [ok |-> FALSE, fs |-> d, log_count |-> count]
    ELSE [ok |-> TRUE,
          fs |-> IF w.file = "log"
                 THEN [d EXCEPT ![LogFile] = File(Append(@.data, id))]
                 ELSE d,
          log_count |-> count + 1]

\* FileTraceHandler::with_config: the log file exists, the handler is not
\* started, the counter is 0; pre are the numbered backups left in the directory
InitLoggerWith(max_backups, pre) ==
    /\ fs = [name \in Names |->
                IF name = LogFile THEN File(<<>>)
                ELSE IF name \in pre THEN File(<<0>>) ELSE NoFile]
    /\ chan = <<>>
    /\ writer = [pc |-> "idle", file |-> "none", current_size |-> 0]
    /\ log_count = 0
    /\ handler = [state |-> "created", max_backups |-> max_backups]
    /\ clock = 0
    /\ hist = [logged |-> <<>>, processed |-> <<>>, fate |-> <<>>, faults |-> 0,
               rotFailed |-> FALSE,
               last |-> [len |-> 0, rotated |-> FALSE, rotOk |-> FALSE, wrote |-> FALSE]]

InitLogger ==
    \E n \in 1..MaxBackups :
        \E pre \in SUBSET {Numbered(i) : i \in 1..n} : InitLoggerWith(n, pre)

(***************************************************************************)
(* explor-auth: sessions and their validity.                               *)
(***************************************************************************)
MaxSessions == 2   \* successful logins of a run
MaxNow == 3        \* ticks Utc::now() advances during a run
MaxCalls == 2      \* requests the middleware answers in a run

\* chrono::Duration::hours(24), one tick being twelve hours
SessionTicks == 2

\* the strings that name sessions: Uuid::new_v4() of the k-th login, and 0,
\* a string no login returns
SessionIds == 0..MaxSessions
Cookies ==
    {[present |-> FALSE, value |-> 1]}
        \cup {[present |-> TRUE, value |-> v] : v \in SessionIds}

Users == {"test", "eve"}
Passwords == {"test", "dGVzdA=="}

\* utils::encode_password: Base64 of the bytes
encode_password(password) ==
    CASE password = "test" -> "dGVzdA=="
      [] password = "dGVzdA==" -> "ZEdWemRBPT0="

\* utils::validate_credentials
validate_credentials(user, password) ==
    user = "test" /\ password = encode_password("test")

NoSession == [present |-> FALSE, user_id |-> "", created_at |-> 0, expires_at |-> 0]

\* Session::new
Session_new(user_id, t) ==
    [present |-> TRUE, user_id |-> user_id, created_at |-> t,
     expires_at |-> t + SessionTicks]

\* Session::is_expired: self.expires_at <= Utc::now()
is_expired(session, t) == session.expires_at <= t

verify_session_ignores_expiry(ss, session_id, t) ==
    IF ss[session_id].present THEN "Ok" ELSE "SessionNotFound"

removeKeeps(ss, session_id) == [sessions |-> ss, found |-> ss[session_id].present]

\* HashMap::remove(session_id): the map without the key, and whether it was there
remove(ss, session_id) ==
    [sessions |-> [ss EXCEPT ![session_id] = NoSession],
     found |-> ss[session_id].present]

\* AuthService::verify_session
verify_session(ss, session_id, t) ==
    IF ss[session_id].present
    THEN IF is_expired(ss[session_id], t) THEN "SessionExpired" ELSE "Ok"
    ELSE "SessionNotFound"

\* AuthService::new, and no request answered yet
InitAuth ==
    /\ sessions = [k \in SessionIds |-> NoSession]
    /\ now = 0
    /\ lastCall = [n |-> 0, cookie |-> [present |-> FALSE, value |-> 1], status |-> "none"]
    /\ serviceCalls = 0
    /\ authHist = [k \in SessionIds |->
                      [created |-> FALSE, at |-> 0, removed |-> FALSE, loggedOut |-> FALSE]]
    /\ authReply = [seq |-> 0, op |-> "none", id |-> 0, result |-> "none",
                    session_found |-> FALSE]

\* the daemons as constructed, while the runs are about something else
ServicesIdle == InitLoggerWith(1, {}) /\ InitAuth

(***************************************************************************)
(* Initial state: nothing built, nothing subscribed.                       *)
(***************************************************************************)
InitEngine ==
    /\ obs = NoObs
    /\ nsub = 0
    /\ active = [s \in SubIds |-> FALSE]
    /\ hflag = [s \in SubIds |-> "none"]
    /\ ownActive = [s \in SubIds |-> FALSE]
    /\ handle = [s \in SubIds |-> "None"]
    /\ hstate = [s \in SubIds |-> "unborn"]
    /\ wstate = [s \in SubIds |-> "none"]
    /\ wpc = [s \in SubIds |-> 1]
    /\ wphase = [s \in SubIds |-> "poll"]
    /\ latch = [s \in SubIds |-> FALSE]
    /\ waiter = [s \in SubIds |-> "none"]
    /\ joins = [s \in SubIds |-> 0]
    /\ mainWait = 0
    /\ delivered = [s \in SubIds |-> <<>>]
    /\ unsubDone = [s \in SubIds |-> FALSE]
    /\ uaw = [s \in SubIds |-> "no"]
    /\ discarded = [s \in SubIds |-> FALSE]
    /\ joinErr = [s \in SubIds |-> FALSE]
    /\ producerCalls = 0
    /\ mapperCalls = 0
    /\ workersStarted = 0

Init == InitEngine /\ limit = 1 /\ ServicesIdle

(***************************************************************************)
(* Building the Observable.                                                *)
(***************************************************************************)
\* Observable::new
New ==
    /\ obs.kind = "None"
    /\ \E p \in SyncProgs, r \in Rets :
          obs' = [kind |-> "Sync", prog |-> p, ret |-> r, maps |-> <<>>]
    /\ UNCHANGED <<serviceVars, limit, nsub, handleVars, workerVars, delivered, countVars>>

\* Observable::with_async_teardown
WithAsyncTeardown ==
    /\ obs.kind = "None"
    /\ \E p \in AsyncProgs, r \in Rets :
          obs' = [kind |-> "Async", prog |-> p, ret |-> r, maps |-> <<>>]
    /\ UNCHANGED <<serviceVars, limit, nsub, handleVars, workerVars, delivered, countVars>>

\* Observable::new and Observable::with_async_teardown for the runs that
\* subscribe twice
NewShort ==
    /\ obs.kind = "None"
    /\ \E p \in ShortSyncProgs, r \in Rets :
          obs' = [kind |-> "Sync", prog |-> p, ret |-> r, maps |-> <<>>]
    /\ UNCHANGED <<serviceVars, limit, nsub, handleVars, workerVars, delivered, countVars>>

WithAsyncTeardownShort ==
    /\ obs.kind = "None"
    /\ \E p \in ShortAsyncProgs, r \in Rets :
          obs' = [kind |-> "Async", prog |-> p, ret |-> r, maps |-> <<>>]
    /\ UNCHANGED <<serviceVars, limit, nsub, handleVars, workerVars, delivered, countVars>>

\* Observable::with_async_teardown given a producer that polls is_active()
WithAsyncTeardownLoop ==
    /\ obs.kind = "None"
    /\ \E p \in LoopProgs, r \in Rets :
          obs' = [kind |-> "Async", prog |-> p, ret |-> r, maps |-> <<>>]
    /\ UNCHANGED <<serviceVars, limit, nsub, handleVars, workerVars, delivered, countVars>>

MapStageDefers(o, m) == [o EXCEPT !.maps = Append(o.maps, m), !.kind = "Async"]

\* Observable::map: wraps the teardown, keeps its variant
MapStage(o, m) == [o EXCEPT !.maps = Append(o.maps, m)]

MapEager ==
    /\ obs.kind # "None"
    /\ nsub = 0
    /\ Len(obs.maps) < MaxMaps
    /\ \E m \in Mappers : obs' = MapStage(obs, m)
    /\ mapperCalls' = mapperCalls + 1
    /\ UNCHANGED <<serviceVars, limit, nsub, handleVars, workerVars, delivered, producerCalls,
                   workersStarted>>

Map ==
    /\ obs.kind # "None"
    /\ nsub = 0
    /\ Len(obs.maps) < MaxMaps
    /\ \E m \in Mappers : obs' = MapStage(obs, m)
    /\ UNCHANGED <<serviceVars, limit, nsub, handleVars, workerVars, delivered, countVars>>

\* Observable::map given a closure that panics
MapPanicking ==
    /\ obs.kind # "None"
    /\ nsub = 0
    /\ Len(obs.maps) < MaxMaps
    /\ \E m \in Panicking : obs' = MapStage(obs, m)
    /\ UNCHANGED <<serviceVars, limit, nsub, handleVars, workerVars, delivered, countVars>>

(***************************************************************************)
(* subscribe.                                                              *)
(***************************************************************************)
\* a Ready handle built on the flag of the observer
ReadyHandleShared == [handle |-> "None", hflag |-> "shared", workers |-> 0]

\* the handle the Sync branch returns: Unsubscribable::ready()
ReadyHandle == [handle |-> "None", hflag |-> "own", workers |-> 0]
\* the handle the Async branch returns: Unsubscribable::background(handle, active)
BackgroundHandle == [handle |-> "Some", hflag |-> "shared", workers |-> 1]

SyncBranchSpawns(o) == BackgroundHandle

AsyncBranchNoWorker(o) == [handle |-> "Some", hflag |-> "shared", workers |-> 0]

SyncBranch(o) == ReadyHandle
AsyncBranch(o) == BackgroundHandle

\* callbacks the Sync branch has invoked when it returns
SyncDelivered(o) == RunSync(o, TRUE)

\* match &self.teardown { TeardownLogic::Sync(arc_f) => ... }
SubscribeSync ==
    /\ obs.kind = "Sync"
    /\ ~BodyPanics(obs)
    /\ nsub < limit
    /\ mainWait = 0
    /\ LET s == nsub + 1
           h == SyncBranch(obs)
       IN /\ nsub' = s
          /\ active' = [active EXCEPT ![s] = TRUE]
          /\ ownActive' = [ownActive EXCEPT ![s] = FALSE]
          /\ hflag' = [hflag EXCEPT ![s] = h.hflag]
          /\ handle' = [handle EXCEPT ![s] = h.handle]
          /\ hstate' = [hstate EXCEPT ![s] = "live"]
          /\ wstate' = [wstate EXCEPT ![s] = IF h.workers > 0 THEN "running" ELSE "none"]
          /\ delivered' = [delivered EXCEPT ![s] = SyncDelivered(obs)]
          /\ producerCalls' = producerCalls + 1
          /\ mapperCalls' = mapperCalls + SumCost(obs.prog, obs.maps, 1)
          /\ workersStarted' = workersStarted + h.workers
    /\ UNCHANGED <<serviceVars, joinErr, obs, limit, wpc, wphase, latch, waiter, joins, mainWait, unsubDone,
                   uaw, discarded>>

\* what the Sync branch has invoked when a mapper unwinds out of (f)(&callbacks)
SyncDeliveredBeforePanic(o) ==
    RunBody(SubSeq(o.prog, 1, PanicPoint(o) - 1), o.maps, 1, TRUE, <<>>)

\* the Sync branch when a mapper panics inside (f)(&callbacks): the panic
\* unwinds through subscribe into its caller, which gets no handle
SubscribeSyncPanics ==
    /\ obs.kind = "Sync"
    /\ BodyPanics(obs)
    /\ nsub < limit
    /\ mainWait = 0
    /\ LET s == nsub + 1
       IN /\ nsub' = s
          /\ active' = [active EXCEPT ![s] = TRUE]
          /\ hstate' = [hstate EXCEPT ![s] = "unwound"]
          /\ delivered' = [delivered EXCEPT ![s] = SyncDeliveredBeforePanic(obs)]
          /\ producerCalls' = producerCalls + 1
          /\ mapperCalls' = mapperCalls + FirstPanic(obs.maps)
    /\ UNCHANGED <<serviceVars, obs, limit, hflag, ownActive, handle, waiter, joins, mainWait,
                   unsubDone, uaw, discarded, joinErr, workerVars, workersStarted>>

\* match &self.teardown { TeardownLogic::Async(arc_f) => ... }: the future is
\* obtained from the producer function and handed to spawn_driven_future
SubscribeAsync ==
    /\ obs.kind = "Async"
    /\ nsub < limit
    /\ mainWait = 0
    /\ LET s == nsub + 1
           h == AsyncBranch(obs)
       IN /\ nsub' = s
          /\ active' = [active EXCEPT ![s] = TRUE]
          /\ hflag' = [hflag EXCEPT ![s] = h.hflag]
          /\ handle' = [handle EXCEPT ![s] = h.handle]
          /\ hstate' = [hstate EXCEPT ![s] = "live"]
          /\ wstate' = [wstate EXCEPT ![s] = IF h.workers > 0 THEN "running" ELSE "none"]
          /\ wpc' = [wpc EXCEPT ![s] = 1]
          /\ wphase' = [wphase EXCEPT ![s] = "poll"]
          /\ producerCalls' = producerCalls + 1
          /\ workersStarted' = workersStarted + h.workers
    /\ UNCHANGED <<serviceVars, joinErr, obs, limit, ownActive, latch, waiter, joins, mainWait, delivered,
                   unsubDone, uaw, discarded, mapperCalls>>

(***************************************************************************)
(* The worker thread: spawn_driven_future's poll loop, and inside a poll    *)
(* the producer body calling the wrapped callbacks of its observer.        *)
(***************************************************************************)
RunningWhileActive(s) == wstate[s] = "running" /\ active[s]

Running(s) == wstate[s] = "running"
AtStatement(s) == Running(s) /\ wphase[s] = "poll" /\ wpc[s] <= Len(obs.prog)
AtEnd(s) == Running(s) /\ wphase[s] = "poll" /\ wpc[s] > Len(obs.prog)

\* a gate in front of the mapping stages: no mapper runs once the flag is false
WrapperLoadGated(s) ==
    /\ AtStatement(s)
    /\ obs.prog[wpc[s]].op \in SyncOps
    /\ ~StatementPanics(obs.maps, obs.prog[wpc[s]])
    /\ latch' = [latch EXCEPT ![s] = active[s]]
    /\ wphase' = [wphase EXCEPT ![s] = "loaded"]
    /\ mapperCalls' = mapperCalls +
           (IF active[s] THEN MapCost(obs.maps, obs.prog[wpc[s]]) ELSE 0)
    /\ UNCHANGED <<serviceVars, buildVars, handleVars, wstate, wpc, delivered, producerCalls,
                   workersStarted>>

\* the producer calls (obs.next)(v), (obs.error)(e) or (obs.complete)(): the
\* mapping stages run, then the wrapper reads the flag
WrapperLoad(s) ==
    /\ AtStatement(s)
    /\ obs.prog[wpc[s]].op \in SyncOps
    /\ ~StatementPanics(obs.maps, obs.prog[wpc[s]])
    /\ latch' = [latch EXCEPT ![s] = active[s]]
    /\ wphase' = [wphase EXCEPT ![s] = "loaded"]
    /\ mapperCalls' = mapperCalls + MapCost(obs.maps, obs.prog[wpc[s]])
    /\ UNCHANGED <<serviceVars, buildVars, handleVars, wstate, wpc, delivered, producerCalls,
                   workersStarted>>

\* ... and, if it read true, invokes the user closure
WrapperInvoke(s) ==
    /\ Running(s)
    /\ wphase[s] = "loaded"
    /\ delivered' = [delivered EXCEPT ![s] =
           Wrapped(@, latch[s], Signal(obs.maps, obs.prog[wpc[s]], wpc[s], "worker"))]
    /\ wpc' = [wpc EXCEPT ![s] = @ + 1]
    /\ wphase' = [wphase EXCEPT ![s] = "poll"]
    /\ latch' = [latch EXCEPT ![s] = FALSE]
    /\ UNCHANGED <<serviceVars, buildVars, handleVars, wstate, countVars>>

\* Poll::Pending => yield_now(), and the loop polls again
PollPendingStuck(s) ==
    /\ AtStatement(s)
    /\ obs.prog[wpc[s]].op = "pending"
    /\ UNCHANGED vars

PollPending(s) ==
    /\ AtStatement(s)
    /\ obs.prog[wpc[s]].op = "pending"
    /\ wpc' = [wpc EXCEPT ![s] = @ + 1]
    /\ UNCHANGED <<serviceVars, buildVars, handleVars, wstate, wphase, latch, delivered, countVars>>

\* Observer::is_active as the condition of the producer's while loop: the
\* body is entered (again) if the flag reads true, left if it reads false
IsActive(s) ==
    /\ AtStatement(s)
    /\ obs.prog[wpc[s]].op \in {"while", "end"}
    /\ is_active(ProducerObserver(s, obs.maps)) => Len(delivered[s]) < MaxEmit
    /\ wpc' = [wpc EXCEPT ![s] = IF is_active(ProducerObserver(s, obs.maps))
                                  THEN LoopHead(obs.prog) + 1
                                  ELSE LoopEnd(obs.prog) + 1]
    /\ UNCHANGED <<serviceVars, buildVars, handleVars, wstate, wphase, latch, delivered, countVars>>

PollReadyOkClears(s) ==
    /\ AtEnd(s)
    /\ obs.ret = Ok
    /\ wstate' = [wstate EXCEPT ![s] = "exited"]
    /\ active' = [active EXCEPT ![s] = FALSE]
    /\ UNCHANGED <<serviceVars, joinErr, buildVars, hflag, ownActive, handle, hstate, waiter, joins,
                   mainWait, unsubDone, uaw, discarded, wpc, wphase, latch,
                   delivered, countVars>>

\* a worker that signals complete on behalf of a computation that returned Ok
PollReadyOkCompletes(s) ==
    /\ AtEnd(s)
    /\ obs.ret = Ok
    /\ wstate' = [wstate EXCEPT ![s] = "exited"]
    /\ delivered' = [delivered EXCEPT ![s] =
           Wrapped(@, active[s],
                   [cb |-> "complete", val |-> Ok, idx |-> wpc[s], th |-> "worker"])]
    /\ UNCHANGED <<serviceVars, buildVars, handleVars, wpc, wphase, latch, countVars>>

\* Poll::Ready(Ok(())) => break
PollReadyOk(s) ==
    /\ AtEnd(s)
    /\ obs.ret = Ok
    /\ wstate' = [wstate EXCEPT ![s] = "exited"]
    /\ UNCHANGED <<serviceVars, buildVars, handleVars, wpc, wphase, latch, delivered, countVars>>

\* Poll::Ready(Err(e)) => (cb_for_err.error)(e): the wrapper reads the flag
PollReadyErr(s) ==
    /\ AtEnd(s)
    /\ obs.ret # Ok
    /\ latch' = [latch EXCEPT ![s] = active[s]]
    /\ wphase' = [wphase EXCEPT ![s] = "errloaded"]
    /\ UNCHANGED <<serviceVars, buildVars, handleVars, wstate, wpc, delivered, countVars>>

\* ... invokes the user's error closure if it read true, and the loop breaks
ErrInvoke(s) ==
    /\ Running(s)
    /\ wphase[s] = "errloaded"
    /\ delivered' = [delivered EXCEPT ![s] =
           Wrapped(@, latch[s], Forwarded(obs.ret, wpc[s], "worker"))]
    /\ wstate' = [wstate EXCEPT ![s] = "exited"]
    /\ wphase' = [wphase EXCEPT ![s] = "poll"]
    /\ latch' = [latch EXCEPT ![s] = FALSE]
    /\ UNCHANGED <<serviceVars, buildVars, handleVars, wpc, countVars>>

MapperPanicsAsError(s) ==
    /\ AtStatement(s)
    /\ StatementPanics(obs.maps, obs.prog[wpc[s]])
    /\ delivered' = [delivered EXCEPT ![s] =
           Wrapped(@, active[s], Forwarded(Signalled, wpc[s], "worker"))]
    /\ wstate' = [wstate EXCEPT ![s] = "exited"]
    /\ mapperCalls' = mapperCalls + FirstPanic(obs.maps)
    /\ UNCHANGED <<serviceVars, buildVars, handleVars, wpc, wphase, latch, producerCalls,
                   workersStarted>>

\* the producer calls (obs.next)(v) and a mapping stage panics: the panic
\* unwinds the closure of thread::spawn, nothing in it catches it
MapperPanics(s) ==
    /\ AtStatement(s)
    /\ StatementPanics(obs.maps, obs.prog[wpc[s]])
    /\ wstate' = [wstate EXCEPT ![s] = "panicked"]
    /\ mapperCalls' = mapperCalls + FirstPanic(obs.maps)
    /\ UNCHANGED <<serviceVars, buildVars, handleVars, wpc, wphase, latch, delivered,
                   producerCalls, workersStarted>>

\* the thread of the worker has ended, by returning or by unwinding
Terminated(s) == wstate[s] \in {"exited", "panicked"}

Worker(s) ==
    \/ WrapperLoad(s) \/ WrapperInvoke(s) \/ PollPending(s)
    \/ PollReadyOk(s) \/ PollReadyErr(s) \/ ErrInvoke(s)

(***************************************************************************)
(* The Unsubscribable handle, used by the subscribing thread.              *)
(***************************************************************************)
Usable(s) == hstate[s] = "live" /\ mainWait = 0

StoreFalseShared(s) ==
    /\ active' = [t \in SubIds |-> IF hflag[s] = "shared" THEN FALSE ELSE active[t]]
    /\ ownActive' = [ownActive EXCEPT ![s] = IF hflag[s] = "own" THEN FALSE ELSE @]

\* no disposal operation has been called on the handle of a deferred
\* subscription: its flag was never stored to and its JoinHandle never taken
Untouched(s) == handle[s] = "Some" /\ ~unsubDone[s] /\ uaw[s] = "no"

\* self.active.store(false, SeqCst) on the flag the handle holds
StoreFalse(s) ==
    /\ active' = [active EXCEPT ![s] = IF hflag[s] = "shared" THEN FALSE ELSE @]
    /\ ownActive' = [ownActive EXCEPT ![s] = IF hflag[s] = "own" THEN FALSE ELSE @]

\* Unsubscribable::unsubscribe
Unsubscribe(s) ==
    /\ Usable(s)
    /\ StoreFalse(s)
    /\ unsubDone' = [unsubDone EXCEPT ![s] = TRUE]
    /\ UNCHANGED <<serviceVars, joinErr, buildVars, hflag, handle, hstate, waiter, joins, mainWait, uaw,
                   discarded, workerVars, delivered, countVars>>

JoinClears(s) ==
    /\ Usable(s)
    /\ StoreFalse(s)
    /\ handle' = [handle EXCEPT ![s] = "None"]
    /\ mainWait' = IF handle[s] = "Some" THEN s ELSE 0
    /\ UNCHANGED <<serviceVars, joinErr, buildVars, hflag, hstate, waiter, joins, unsubDone, uaw, discarded,
                   workerVars, delivered, countVars>>

\* Unsubscribable::join: self.handle.take(), then h.join() blocks the caller
Join(s) ==
    /\ Usable(s)
    /\ handle' = [handle EXCEPT ![s] = "None"]
    /\ mainWait' = IF handle[s] = "Some" THEN s ELSE 0
    /\ UNCHANGED <<serviceVars, joinErr, buildVars, active, hflag, ownActive, hstate, waiter, joins,
                   unsubDone, uaw, discarded, workerVars, delivered, countVars>>

UnsubscribeAndWaitNoStore(s) ==
    /\ Usable(s)
    /\ handle' = [handle EXCEPT ![s] = "None"]
    /\ mainWait' = IF handle[s] = "Some" THEN s ELSE 0
    /\ uaw' = [uaw EXCEPT ![s] = IF handle[s] = "Some" THEN "waiting" ELSE "returned"]
    /\ UNCHANGED <<serviceVars, joinErr, buildVars, active, ownActive, hflag, hstate, waiter, joins, unsubDone,
                   discarded, workerVars, delivered, countVars>>

\* Unsubscribable::unsubscribe_and_wait: the store, then join
UnsubscribeAndWait(s) ==
    /\ Usable(s)
    /\ StoreFalse(s)
    /\ handle' = [handle EXCEPT ![s] = "None"]
    /\ mainWait' = IF handle[s] = "Some" THEN s ELSE 0
    /\ uaw' = [uaw EXCEPT ![s] = IF handle[s] = "Some" THEN "waiting" ELSE "returned"]
    /\ UNCHANGED <<serviceVars, joinErr, buildVars, hflag, hstate, waiter, joins, unsubDone, discarded,
                   workerVars, delivered, countVars>>

\* h.join() returns to the caller once the worker thread has ended: Ok(())
\* if its closure returned, Err(payload) if it panicked
JoinReturn ==
    /\ mainWait # 0
    /\ Terminated(mainWait)
    /\ joinErr' = [joinErr EXCEPT ![mainWait] = (wstate[mainWait] = "panicked")]
    /\ joins' = [joins EXCEPT ![mainWait] = @ + 1]
    /\ mainWait' = 0
    /\ uaw' = [uaw EXCEPT ![mainWait] = IF @ = "waiting" THEN "returned" ELSE @]
    /\ UNCHANGED <<serviceVars, buildVars, active, hflag, ownActive, handle, hstate, waiter,
                   unsubDone, discarded, workerVars, delivered, countVars>>

SpawnWaiterKeepsHandle(s) ==
    /\ handle' = handle
    /\ waiter' = [waiter EXCEPT ![s] = IF handle[s] = "Some" THEN "waiting" ELSE @]

SpawnWaiterLeaks(s) ==
    /\ handle' = [handle EXCEPT ![s] = "None"]
    /\ waiter' = waiter

\* if let Some(h) = self.handle.take() { thread::spawn(move || h.join()) }
SpawnWaiter(s) ==
    /\ handle' = [handle EXCEPT ![s] = "None"]
    /\ waiter' = [waiter EXCEPT ![s] = IF handle[s] = "Some" THEN "waiting" ELSE @]

\* Unsubscribable::detach
Detach(s) ==
    /\ Usable(s)
    /\ SpawnWaiter(s)
    /\ UNCHANGED <<serviceVars, joinErr, buildVars, active, hflag, ownActive, hstate, joins, mainWait,
                   unsubDone, uaw, discarded, workerVars, delivered, countVars>>

\* impl Drop for Unsubscribable: the handle goes out of scope
Drop(s) ==
    /\ Usable(s)
    /\ StoreFalse(s)
    /\ SpawnWaiter(s)
    /\ hstate' = [hstate EXCEPT ![s] = "dropped"]
    /\ discarded' = [discarded EXCEPT ![s] = Untouched(s)]
    /\ UNCHANGED <<serviceVars, joinErr, buildVars, hflag, joins, mainWait, unsubDone, uaw, workerVars,
                   delivered, countVars>>

\* the background thread of detach/drop: let _ = h.join()
WaiterJoin(s) ==
    /\ waiter[s] = "waiting"
    /\ Terminated(s)
    /\ waiter' = [waiter EXCEPT ![s] = "done"]
    /\ joins' = [joins EXCEPT ![s] = @ + 1]
    /\ UNCHANGED <<serviceVars, joinErr, buildVars, active, hflag, ownActive, handle, hstate, mainWait,
                   unsubDone, uaw, discarded, workerVars, delivered, countVars>>

(***************************************************************************)
(* loggerd: FileTraceHandler and its writer thread.                        *)
(***************************************************************************)
\* the Receiver lives until writer_thread returns
ReceiverAlive == writer.pc # "exited"

\* let _ = sender.send(m): queued, or an ignored Err once the Receiver is gone
send(q, m) == IF ReceiverAlive THEN Append(q, m) ELSE q

\* file.metadata().map(|m| m.len()): the bytes of the messages in the file
RECURSIVE FileLen(_)
FileLen(data) ==
    IF data = <<>> THEN 0 ELSE hist.logged[Head(data)].len + FileLen(Tail(data))

\* FileTraceHandler::start: channel(), thread::spawn(writer_thread)
start ==
    /\ handler.state = "created"
    /\ handler' = [handler EXCEPT !.state = "started"]
    /\ writer' = [writer EXCEPT !.pc = "opening"]
    /\ UNCHANGED <<fs, chan, log_count, clock, hist, engineVars, authVars>>

\* Trace::log on a started handler
LogMessage ==
    /\ handler.state = "started"
    /\ Len(hist.logged) < MaxMsgs
    /\ \E len \in Lens :
          LET m == [kind |-> "Log", id |-> Len(hist.logged) + 1, len |-> len]
          IN /\ chan' = send(chan, m)
             /\ hist' = [hist EXCEPT !.logged = Append(@, m)]
    /\ UNCHANGED <<fs, writer, log_count, handler, clock, engineVars, authVars>>

\* writer_thread before its loop: open_log_file(path), return on Err
WriterOpen ==
    /\ writer.pc = "opening"
    /\ \E io \in BOOLEAN :
          /\ ~io => hist.faults < MaxFaults
          /\ writer' = IF io
                       THEN [pc |-> "recv", file |-> "log",
                             current_size |-> FileLen(fs[LogFile].data)]
                       ELSE [writer EXCEPT !.pc = "exited"]
          /\ fs' = IF io THEN open_log_file(fs, LogFile) ELSE fs
          /\ chan' = IF io THEN chan ELSE <<>>
          /\ hist' = [hist EXCEPT !.faults = IF io THEN @ ELSE @ + 1]
    /\ UNCHANGED <<log_count, handler, clock, engineVars, authVars>>

\* writer_thread, Ok(TraceMessage::Log(message)): rotate if should_rotate,
\* going on when perform_rotation fails, then write_message
WriterLog ==
    /\ writer.pc = "recv"
    /\ chan # <<>>
    /\ Head(chan).kind = "Log"
    /\ LET m == Head(chan)
           need == should_rotate(writer.current_size, m.len, MaxSize)
       IN \E rio \in RotationFaults, wio \in BOOLEAN :
             LET nf == (IF rio # "none" THEN 1 ELSE 0) + (IF wio THEN 0 ELSE 1)
                 rot == IF need
                        THEN perform_rotation(writer, fs, handler.max_backups, clock, rio)
                        ELSE [ok |-> TRUE, writer |-> writer, fs |-> fs]
                 wr == write_message(rot.writer, rot.fs, log_count, m.id, wio)
             IN /\ ~need => rio = "none"
                /\ hist.faults + nf <= MaxFaults
                /\ fs' = wr.fs
                /\ log_count' = wr.log_count
                /\ writer' = [rot.writer EXCEPT
                                 !.current_size = IF wr.ok THEN @ + m.len ELSE @]
                /\ hist' = [hist EXCEPT
                              !.processed = Append(@, m.id),
                              !.fate = Append(@, IF ~wr.ok THEN "failed"
                                                 ELSE IF rot.writer.file = "log"
                                                      THEN "log" ELSE "null"),
                              !.faults = @ + nf,
                              !.rotFailed = @ \/ ~rot.ok,
                              !.last = [len |-> m.len, rotated |-> need,
                                        rotOk |-> need /\ rot.ok, wrote |-> wr.ok]]
    /\ chan' = Tail(chan)
    /\ UNCHANGED <<handler, clock, engineVars, authVars>>

\* writer_thread, Ok(TraceMessage::Shutdown): flush and break; the Sender is
\* dropped after the join only, so recv never returns Err
WriterShutdown ==
    /\ writer.pc = "recv"
    /\ chan # <<>>
    /\ Head(chan).kind = "Shutdown"
    /\ writer' = [writer EXCEPT !.pc = "exited", !.file = "none"]
    /\ chan' = <<>>
    /\ UNCHANGED <<fs, log_count, handler, clock, hist, engineVars, authVars>>

\* impl Drop for FileTraceHandler: send Shutdown if started, then join
DropHandler ==
    /\ handler.state \in {"created", "started"}
    /\ handler' = [handler EXCEPT
                      !.state = IF @ = "started" THEN "joining" ELSE "dropped"]
    /\ chan' = IF handler.state = "started"
               THEN send(chan, [kind |-> "Shutdown", id |-> 0, len |-> 0])
               ELSE chan
    /\ UNCHANGED <<fs, writer, log_count, clock, hist, engineVars, authVars>>

\* handle.join() returns once the writer thread has exited, and drop returns
DropReturn ==
    /\ handler.state = "joining"
    /\ writer.pc = "exited"
    /\ handler' = [handler EXCEPT !.state = "dropped"]
    /\ UNCHANGED <<fs, chan, writer, log_count, clock, hist, engineVars, authVars>>

\* a second of wall-clock time passes
ClockTick ==
    /\ clock < MaxClock
    /\ clock' = clock + 1
    /\ UNCHANGED <<fs, chan, writer, log_count, handler, hist, engineVars, authVars>>

(***************************************************************************)
(* explor-auth: AuthService and AuthMiddlewareService.                     *)
(***************************************************************************)
\* a client can name the ids logins have returned and strings that are no
\* id: Uuid::new_v4() is random, an id is not known before login returns it
Known(session_id) == session_id = 0 \/ authHist[session_id].created

\* AuthService::login: Err(InvalidCredentials), or a fresh id and its Session
login ==
    /\ \E user \in Users, password \in Passwords :
          IF validate_credentials(user, password)
          THEN LET sid == Cardinality({k \in SessionIds : authHist[k].created}) + 1
               IN /\ sid \in SessionIds
                  /\ sessions' = [sessions EXCEPT ![sid] = Session_new(user, now)]
                  /\ authHist' = [authHist EXCEPT
                        ![sid] = [created |-> TRUE, at |-> now, removed |-> FALSE,
                                  loggedOut |-> FALSE]]
                  /\ authReply' = [seq |-> 1 - authReply.seq, op |-> "login",
                                   id |-> sid, result |-> "Ok", session_found |-> FALSE]
          ELSE /\ authReply' = [seq |-> 1 - authReply.seq, op |-> "login", id |-> 0,
                                result |-> "InvalidCredentials",
                                session_found |-> FALSE]
               /\ UNCHANGED <<sessions, authHist>>
    /\ UNCHANGED <<now, lastCall, serviceCalls, engineVars, logVars>>

\* AuthService::logout: sessions.remove(session_id)
logout ==
    /\ \E session_id \in SessionIds :
          LET r == remove(sessions, session_id)
          IN /\ Known(session_id)
             /\ sessions' = r.sessions
             /\ authHist' = [authHist EXCEPT
                   ![session_id].removed = @ \/ sessions[session_id].present,
                   ![session_id].loggedOut = TRUE]
             /\ authReply' = [seq |-> 1 - authReply.seq, op |-> "logout",
                              id |-> session_id, result |-> "Ok",
                              session_found |-> r.found]
    /\ UNCHANGED <<now, lastCall, serviceCalls, engineVars, logVars>>

\* AuthService::cleanup_expired_sessions: retain(|_, s| !s.is_expired())
cleanup_expired_sessions ==
    /\ sessions' = [k \in SessionIds |->
                       IF sessions[k].present /\ is_expired(sessions[k], now)
                       THEN NoSession ELSE sessions[k]]
    /\ authHist' = [k \in SessionIds |->
                       [authHist[k] EXCEPT
                           !.removed = @ \/ (sessions[k].present
                                               /\ is_expired(sessions[k], now))]]
    /\ UNCHANGED <<now, lastCall, serviceCalls, authReply, engineVars, logVars>>

\* AuthMiddlewareService::call: the wrapped service is called if the request
\* has a session_id cookie and verify_session is Ok, else the answer is 401
\* (app_data is registered by main, so req.app_data is Some)
call ==
    /\ lastCall.n < MaxCalls
    /\ \E cookie \in Cookies :
          LET pass == cookie.present
                        /\ verify_session(sessions, cookie.value, now) = "Ok"
          IN /\ cookie.present => Known(cookie.value)
             /\ lastCall' = [n |-> lastCall.n + 1, cookie |-> cookie,
                             status |-> IF pass THEN "forwarded" ELSE "401"]
             /\ serviceCalls' = serviceCalls + (IF pass THEN 1 ELSE 0)
    /\ UNCHANGED <<sessions, now, authHist, authReply, engineVars, logVars>>

\* twelve hours pass
TimePasses ==
    /\ now < MaxNow
    /\ now' = now + 1
    /\ UNCHANGED <<sessions, lastCall, serviceCalls, authHist, authReply, engineVars,
                   logVars>>

(***************************************************************************)
(* Specifications.                                                         *)
(***************************************************************************)
Next ==
    \/ New
    \/ WithAsyncTeardown
    \/ Map
    \/ SubscribeSync
    \/ SubscribeAsync
    \/ \E s \in SubIds : WrapperLoad(s)
    \/ \E s \in SubIds : WrapperInvoke(s)
    \/ \E s \in SubIds : PollPending(s)
    \/ \E s \in SubIds : PollReadyOk(s)
    \/ \E s \in SubIds : PollReadyErr(s)
    \/ \E s \in SubIds : ErrInvoke(s)
    \/ \E s \in SubIds : Unsubscribe(s)
    \/ \E s \in SubIds : UnsubscribeAndWait(s)
    \/ \E s \in SubIds : Join(s)
    \/ JoinReturn
    \/ \E s \in SubIds : Detach(s)
    \/ \E s \in SubIds : Drop(s)
    \/ \E s \in SubIds : WaiterJoin(s)

Spec == Init /\ [][Next]_vars

\* the operating system runs every spawned thread: worker and waiter steps
\* are weakly fair; the subscribing thread is free to stop calling
FairSpec ==
    /\ Spec
    /\ \A s \in SubIds : WF_vars(Worker(s)) /\ WF_vars(WaiterJoin(s))
    /\ WF_vars(JoinReturn)

\* runs of one cooperative producer, which stops once is_active() is false
NextCoop ==
    \/ WithAsyncTeardownLoop
    \/ SubscribeAsync
    \/ \E s \in SubIds : IsActive(s)
    \/ \E s \in SubIds : WrapperLoad(s)
    \/ \E s \in SubIds : WrapperInvoke(s)
    \/ \E s \in SubIds : PollPending(s)
    \/ \E s \in SubIds : PollReadyOk(s)
    \/ \E s \in SubIds : PollReadyErr(s)
    \/ \E s \in SubIds : ErrInvoke(s)
    \/ \E s \in SubIds : Unsubscribe(s)
    \/ \E s \in SubIds : UnsubscribeAndWait(s)
    \/ \E s \in SubIds : Join(s)
    \/ JoinReturn
    \/ \E s \in SubIds : Detach(s)
    \/ \E s \in SubIds : Drop(s)
    \/ \E s \in SubIds : WaiterJoin(s)

CoopSpec == Init /\ [][NextCoop]_vars

FairCoopSpec ==
    /\ CoopSpec
    /\ \A s \in SubIds :
          WF_vars(Worker(s) \/ IsActive(s)) /\ WF_vars(WaiterJoin(s))
    /\ WF_vars(JoinReturn)

\* runs in which one Observable is subscribed twice (test_multiple_subscribers
\* subscribes two Observables built by the same function)
InitMulti == InitEngine /\ limit = 2 /\ ServicesIdle

NextMulti ==
    \/ NewShort
    \/ WithAsyncTeardownShort
    \/ SubscribeSync
    \/ SubscribeAsync
    \/ \E s \in SubIds : WrapperLoad(s)
    \/ \E s \in SubIds : WrapperInvoke(s)
    \/ \E s \in SubIds : PollPending(s)
    \/ \E s \in SubIds : PollReadyOk(s)
    \/ \E s \in SubIds : PollReadyErr(s)
    \/ \E s \in SubIds : ErrInvoke(s)
    \/ \E s \in SubIds : Unsubscribe(s)
    \/ \E s \in SubIds : UnsubscribeAndWait(s)
    \/ \E s \in SubIds : Join(s)
    \/ JoinReturn
    \/ \E s \in SubIds : Detach(s)
    \/ \E s \in SubIds : Drop(s)
    \/ \E s \in SubIds : WaiterJoin(s)

MultiSpec == InitMulti /\ [][NextMulti]_vars

\* runs in which a stage of the map chain may be a closure that panics
NextPanic ==
    \/ NewShort
    \/ WithAsyncTeardownShort
    \/ Map
    \/ MapPanicking
    \/ SubscribeSync
    \/ SubscribeSyncPanics
    \/ SubscribeAsync
    \/ \E s \in SubIds : MapperPanics(s)
    \/ \E s \in SubIds : WrapperLoad(s)
    \/ \E s \in SubIds : WrapperInvoke(s)
    \/ \E s \in SubIds : PollPending(s)
    \/ \E s \in SubIds : PollReadyOk(s)
    \/ \E s \in SubIds : PollReadyErr(s)
    \/ \E s \in SubIds : ErrInvoke(s)
    \/ \E s \in SubIds : Unsubscribe(s)
    \/ \E s \in SubIds : UnsubscribeAndWait(s)
    \/ \E s \in SubIds : Join(s)
    \/ JoinReturn
    \/ \E s \in SubIds : Detach(s)
    \/ \E s \in SubIds : Drop(s)
    \/ \E s \in SubIds : WaiterJoin(s)

PanicSpec == Init /\ [][NextPanic]_vars

\* runs of one deferred subscription: the poll loop of the worker next to
\* every operation of the handle; the spawned threads are scheduled fairly
NextPoll ==
    \/ WithAsyncTeardown
    \/ SubscribeAsync
    \/ \E s \in SubIds : WrapperLoad(s)
    \/ \E s \in SubIds : WrapperInvoke(s)
    \/ \E s \in SubIds : PollPending(s)
    \/ \E s \in SubIds : PollReadyOk(s)
    \/ \E s \in SubIds : PollReadyErr(s)
    \/ \E s \in SubIds : ErrInvoke(s)
    \/ \E s \in SubIds : Unsubscribe(s)
    \/ \E s \in SubIds : UnsubscribeAndWait(s)
    \/ \E s \in SubIds : Join(s)
    \/ JoinReturn
    \/ \E s \in SubIds : Detach(s)
    \/ \E s \in SubIds : Drop(s)
    \/ \E s \in SubIds : WaiterJoin(s)

PollSpec == Init /\ [][NextPoll]_vars

FairPollSpec ==
    /\ PollSpec
    /\ \A s \in SubIds : WF_vars(Worker(s)) /\ WF_vars(WaiterJoin(s))
    /\ WF_vars(JoinReturn)

\* runs of one FileTraceHandler: created, started, logged to, dropped
InitLog == InitEngine /\ limit = 1 /\ InitLogger /\ InitAuth

NextLog ==
    \/ start
    \/ LogMessage
    \/ WriterOpen
    \/ WriterLog
    \/ WriterShutdown
    \/ DropHandler
    \/ DropReturn
    \/ ClockTick

LogSpec == InitLog /\ [][NextLog]_vars

\* the same runs in a directory that holds the log file only
InitFreshLog ==
    /\ InitEngine /\ limit = 1 /\ InitAuth
    /\ \E n \in 1..MaxBackups : InitLoggerWith(n, {})

FreshLogSpec == InitFreshLog /\ [][NextLog]_vars

\* runs of the session service behind the middleware
NextAuth ==
    \/ login
    \/ logout
    \/ cleanup_expired_sessions
    \/ call
    \/ TimePasses

AuthSpec == Init /\ [][NextAuth]_vars

(***************************************************************************)
(* Vocabulary of the properties.                                           *)
(***************************************************************************)
Subscribed(s) == hstate[s] # "unborn"
Deferred == obs.kind = "Async"
Immediate == obs.kind = "Sync"
Count(log, cb) == Cardinality({i \in DOMAIN log : log[i].cb = cb})
Issues(cb) == \E i \in DOMAIN obs.prog : obs.prog[i].op = cb
\* the producer has finished: its body returned, or the worker left the loop
Finished(s) == Subscribed(s) /\ (Immediate \/ wstate[s] = "exited")
\* the value a chain of map calls is to deliver: the last call is applied last
RECURSIVE Composed(_, _)
Composed(maps, v) ==
    IF maps = <<>> THEN v
    ELSE Apply(maps[Len(maps)], Composed(SubSeq(maps, 1, Len(maps) - 1), v))

(***************************************************************************)
(* C1: for a deferred subscription, once unsubscribe() has returned, no    *)
(* user callback (next, error, complete) is invoked any more, in every     *)
(* interleaving with the worker.                                           *)
(***************************************************************************)
C1_SilentAfterUnsubscribe ==
    [][\A s \in SubIds :
          (Deferred /\ unsubDone[s]) => delivered'[s] = delivered[s]]_vars

(***************************************************************************)
(* C2: building an Observable (new, with_async_teardown, map chains) calls *)
(* no producer, no mapping function and no callback and starts no worker:  *)
(* these happen only as part of a subscribe call.                          *)
(***************************************************************************)
C2_BuildingIsLazy ==
    /\ producerCalls = nsub
    /\ workersStarted <= nsub
    /\ nsub = 0 =>
          /\ mapperCalls = 0
          /\ \A s \in SubIds : delivered[s] = <<>> /\ wstate[s] = "none"

C2_Witness ==
    /\ nsub = 0
    /\ Deferred
    /\ Len(obs.prog) > 0
    /\ Len(obs.maps) = 2

(***************************************************************************)
(* C3: for an immediate stream, subscribe runs the producer on the         *)
(* subscribing thread, every callback the producer issued has been         *)
(* delivered when subscribe returns, and the handle is Ready (no worker).  *)
(***************************************************************************)
C3_ImmediateIsSynchronous ==
    \A s \in SubIds :
        (Subscribed(s) /\ Immediate) =>
            /\ Len(delivered[s]) >= Len(obs.prog)
            /\ \A i \in DOMAIN obs.prog :
                  /\ delivered[s][i].cb = obs.prog[i].op
                  /\ delivered[s][i].idx = i
            /\ \A i \in DOMAIN delivered[s] : delivered[s][i].th = "main"
            /\ handle[s] = "None"
            /\ wstate[s] = "none"
            /\ workersStarted = 0

C3_Witness ==
    /\ Subscribed(1)
    /\ Immediate
    /\ Len(obs.prog) = 3
    /\ Len(delivered[1]) = 3
    /\ hstate[1] = "live"

(***************************************************************************)
(* C4: within one subscription the user callbacks are invoked in exactly   *)
(* the order in which the producer issued the calls, whatever the number   *)
(* of map stages, each next carrying the value the chain maps it to; with  *)
(* liveness never cleared none of them is missing.                         *)
(***************************************************************************)
C4_OrderPreserved ==
    \A s \in SubIds :
        LET log == delivered[s] IN
        /\ \A i, j \in DOMAIN log : i < j => log[i].idx < log[j].idx
        /\ \A i \in DOMAIN log :
              log[i].idx <= Len(obs.prog) =>
                  LET o == obs.prog[log[i].idx] IN
                  /\ log[i].cb = o.op
                  /\ log[i].val = IF o.op = "next" THEN Composed(obs.maps, o.v) ELSE o.v
        /\ (Finished(s) /\ active[s]) =>
              \A k \in DOMAIN obs.prog :
                  obs.prog[k].op # "pending" => \E i \in DOMAIN log : log[i].idx = k

\* Scenario A: next(1), next(2), complete through map(x * 2)
C4_Witness ==
    /\ Immediate
    /\ obs.maps = <<"f">>
    /\ obs.prog = <<[op |-> "next", v |-> 1], [op |-> "next", v |-> 2],
                    [op |-> "complete", v |-> 0]>>
    /\ Len(delivered[1]) = 3
    /\ delivered[1][1].cb = "next" /\ delivered[1][1].val = 2
    /\ delivered[1][2].cb = "next" /\ delivered[1][2].val = 4
    /\ delivered[1][3].cb = "complete"

(***************************************************************************)
(* C5: map(f) then map(g) delivers what map(|x| g(f(x))) delivers: the     *)
(* callbacks a run has invoked are exactly those the same run invokes when *)
(* the last two map stages are replaced by one stage with the composed     *)
(* function.                                                               *)
(***************************************************************************)
Compose(a, b) ==
    CASE a = "f" /\ b = "f" -> "f;f"
      [] a = "f" /\ b = "g" -> "f;g"
      [] a = "g" /\ b = "f" -> "g;f"
      [] a = "g" /\ b = "g" -> "g;g"

Fused(maps) ==
    LET k == Len(maps)
    IN Append(SubSeq(maps, 1, k - 2), Compose(maps[k - 1], maps[k]))

C5_MapComposition ==
    \A s \in SubIds :
        Len(obs.maps) >= 2 =>
            \A i \in DOMAIN delivered[s] :
                LET e == delivered[s][i] IN
                e.idx <= Len(obs.prog) =>
                    e = Signal(Fused(obs.maps), obs.prog[e.idx], e.idx, e.th)

C5_Witness ==
    /\ Deferred
    /\ obs.maps = <<"f", "g">>
    /\ Len(delivered[1]) = 2
    /\ delivered[1][1].cb = "next" /\ delivered[1][1].val = 3
    /\ delivered[1][2].cb = "complete"

(***************************************************************************)
(* C6 (as claimed): if the producer of a deferred stream returns Err(e)    *)
(* and the subscription is never unsubscribed, the error callback is       *)
(* invoked exactly once, with e, and complete is invoked zero times.       *)
(***************************************************************************)
C6_ErrOnceNoComplete ==
    \A s \in SubIds :
        (Deferred /\ obs.ret # Ok /\ active[s] /\ wstate[s] = "exited") =>
            /\ Count(delivered[s], "error") = 1
            /\ \A i \in DOMAIN delivered[s] :
                  delivered[s][i].cb = "error" => delivered[s][i].val = obs.ret
            /\ Count(delivered[s], "complete") = 0

(***************************************************************************)
(* C6 (amended): if the producer of a deferred stream issues no error and  *)
(* no complete call of its own and returns Err(e), and liveness is never   *)
(* cleared, the error callback is invoked exactly once, with e, when the   *)
(* worker leaves its loop and not before, and complete is never invoked.   *)
(***************************************************************************)
C6_ErrOnceForPlainProducer ==
    \A s \in SubIds :
        (Deferred /\ obs.ret # Ok /\ active[s] /\ Subscribed(s)
            /\ ~Issues("error") /\ ~Issues("complete")) =>
            /\ Count(delivered[s], "complete") = 0
            /\ Count(delivered[s], "error") =
                  (IF wstate[s] = "exited" THEN 1 ELSE 0)
            /\ \A i \in DOMAIN delivered[s] :
                  delivered[s][i].cb = "error" =>
                      /\ delivered[s][i].val = obs.ret
                      /\ i = Len(delivered[s])

C6_Witness ==
    /\ Deferred
    /\ obs.ret = Returned
    /\ obs.maps # <<>>
    /\ active[1]
    /\ wstate[1] = "exited"
    /\ ~Issues("error") /\ ~Issues("complete")
    /\ Len(delivered[1]) = 2
    /\ delivered[1][2] = [cb |-> "error", val |-> Returned, idx |-> Len(obs.prog) + 1,
                          th |-> "worker"]

(***************************************************************************)
(* C7: if the producer of an immediate stream returns Err(e), subscribe    *)
(* invokes the error callback with e exactly once, after every callback    *)
(* the producer issued and before it returns, and returns a Ready handle.  *)
(***************************************************************************)
C7_SyncErrForwarded ==
    \A s \in SubIds :
        (Subscribed(s) /\ Immediate /\ obs.ret # Ok) =>
            LET log == delivered[s]
                n == Len(obs.prog)
            IN /\ Len(log) = n + 1
               /\ \A i \in 1..n : log[i].idx = i
               /\ log[n + 1] = [cb |-> "error", val |-> obs.ret, idx |-> n + 1,
                                th |-> "main"]
               /\ handle[s] = "None"
               /\ hflag[s] = "own"
               /\ wstate[s] = "none"

C7_Witness ==
    /\ Subscribed(1)
    /\ Immediate
    /\ obs.ret = Returned
    /\ Len(obs.prog) = 2
    /\ Len(delivered[1]) = 3
    /\ delivered[1][3].cb = "error" /\ delivered[1][3].val = Returned
    /\ handle[1] = "None"

(***************************************************************************)
(* C8: for every subscription the error callback fires at most once, and   *)
(* after it has fired no further next, error or complete callback fires,   *)
(* whatever the producer does afterwards.                                  *)
(***************************************************************************)
C8_ErrorIsTerminal ==
    \A s \in SubIds :
        \A i \in DOMAIN delivered[s] :
            delivered[s][i].cb = "error" => i = Len(delivered[s])

(***************************************************************************)
(* C9 (as claimed): a subscriber that never unsubscribes, keeps its handle *)
(* and whose producer never errors sees exactly one complete: stated for   *)
(* the moment the producer has finished, after which nothing more can      *)
(* arrive.                                                                 *)
(***************************************************************************)
C9_OneCompleteWhenFinished ==
    \A s \in SubIds :
        (Finished(s) /\ active[s] /\ ~unsubDone[s] /\ hstate[s] = "live"
            /\ obs.ret = Ok /\ ~Issues("error")) =>
            Count(delivered[s], "complete") = 1

(***************************************************************************)
(* C9 (amended): a subscriber that never unsubscribes, keeps its handle    *)
(* and whose producer never errors and calls complete exactly once         *)
(* eventually sees exactly one complete callback, and never a second one:  *)
(* from some moment on the count of complete callbacks is one for ever.    *)
(***************************************************************************)
Conforming ==
    /\ obs.ret = Ok
    /\ ~Issues("error")
    /\ Cardinality({i \in DOMAIN obs.prog : obs.prog[i].op = "complete"}) = 1

C9_EventuallyOneComplete ==
    <>[](\A s \in SubIds :
            (Conforming /\ Subscribed(s) /\ active[s]) =>
                Count(delivered[s], "complete") = 1)

C9_Witness ==
    /\ Deferred
    /\ Conforming
    /\ Issues("pending")
    /\ wstate[1] = "exited"
    /\ active[1]
    /\ hstate[1] = "live"
    /\ Count(delivered[1], "complete") = 1

\* the producer body has not returned yet (the poll has not reported Ready)
ProducerRunning(s) == Running(s) /\ wphase[s] # "errloaded"

(***************************************************************************)
(* C10: a subscriber that unsubscribes before the producer terminates sees *)
(* neither an error nor a completion signal afterwards: once liveness is   *)
(* cleared while the producer is still running, no error and no complete   *)
(* callback is invoked any more.                                           *)
(***************************************************************************)
C10_CleanStop ==
    [][\A s \in SubIds :
          (Deferred /\ ~active[s] /\ ProducerRunning(s)) =>
              /\ Count(delivered'[s], "error") = Count(delivered[s], "error")
              /\ Count(delivered'[s], "complete") = Count(delivered[s], "complete")]_vars

(***************************************************************************)
(* C11: whenever unsubscribe_and_wait() has returned on the handle of a    *)
(* deferred subscription, whatever handle operations were called before,   *)
(* liveness is cleared and the worker thread has exited; the JoinHandle is *)
(* gone, so that a following join() returns at once.                       *)
(***************************************************************************)
C11_WaitedForWorker ==
    \A s \in SubIds :
        (Deferred /\ uaw[s] = "returned") =>
            /\ ~active[s]
            /\ wstate[s] = "exited"
            /\ handle[s] = "None"

(***************************************************************************)
(* C12: for a deferred producer that checks is_active() between emissions  *)
(* and finishes once it is false, unsubscribe_and_wait() clears liveness   *)
(* before the caller starts waiting, and every call eventually returns:    *)
(* from some moment on no call is waiting any more.                        *)
(***************************************************************************)
C12_WaitEnds ==
    /\ [](\A s \in SubIds : uaw[s] = "waiting" => ~active[s])
    /\ <>[](\A s \in SubIds : uaw[s] # "waiting")

\* test_unsubscribe_and_wait: a message was received, then the call returned
C12_Witness ==
    /\ obs.prog # <<>>
    /\ obs.prog[1].op = "while"
    /\ Count(delivered[1], "next") >= 1
    /\ uaw[1] = "returned"
    /\ joins[1] = 1
    /\ wstate[1] = "exited"

(***************************************************************************)
(* C13: discarding the handle of a deferred subscription on which no       *)
(* disposal operation was called acts as unsubscribe() followed by         *)
(* detach(): the discard clears liveness, hands the JoinHandle to a        *)
(* background waiter and does not wait for the worker; and once the handle *)
(* is gone no user callback is invoked any more.                           *)
(***************************************************************************)
C13_DiscardIsUnsubscribeDetach ==
    [][\A s \in SubIds :
          Deferred =>
              /\ (Untouched(s) /\ hstate[s] = "live" /\ hstate'[s] = "dropped") =>
                    /\ ~active'[s]
                    /\ handle'[s] = "None"
                    /\ waiter'[s] = "waiting"
                    /\ mainWait' = 0
                    /\ workerVars' = workerVars
              /\ discarded[s] => delivered'[s] = delivered[s]]_vars

\* the caller is blocked in join() (not in unsubscribe_and_wait) on s
JoinWaiting(s) == mainWait = s /\ uaw[s] # "waiting"

(***************************************************************************)
(* C14: join() on a deferred subscription returns only after the worker    *)
(* has exited; neither the call, nor the wait, nor the return changes the  *)
(* liveness flag, and a callback the producer issues during the wait with  *)
(* liveness set is delivered.  On a Ready handle, or when the JoinHandle   *)
(* was taken before, join() changes nothing and does not wait.             *)
(***************************************************************************)
C14_JoinOnlyWaits ==
    [][\A s \in SubIds :
          /\ (mainWait = 0 /\ mainWait' = s /\ uaw'[s] = uaw[s]) =>
                active' = active /\ ownActive' = ownActive
          /\ (Deferred /\ JoinWaiting(s)) =>
                /\ active'[s] = active[s]
                /\ mainWait' = 0 => wstate[s] = "exited"
                /\ (active[s] /\ wphase[s] = "loaded" /\ wphase'[s] = "poll") =>
                      Len(delivered'[s]) = Len(delivered[s]) + 1
          /\ (Join(s) /\ handle[s] = "None") => UNCHANGED vars]_vars

\* join() has returned on a subscription that was never unsubscribed: the
\* worker has exited and every callback of the producer was delivered
C14_Witness ==
    /\ Deferred
    /\ joins[1] = 1
    /\ waiter[1] = "none"
    /\ uaw[1] = "no"
    /\ mainWait = 0
    /\ wstate[1] = "exited"
    /\ active[1]
    /\ Len(obs.prog) = 3
    /\ Len(delivered[1]) = 3

\* who holds the worker's JoinHandle: the Unsubscribable, the caller blocked
\* in h.join(), the background waiter; plus the joins that have consumed it
JoinHandleHeld(s) ==
    (IF handle[s] = "Some" THEN 1 ELSE 0)
    + (IF mainWait = s THEN 1 ELSE 0)
    + (IF waiter[s] = "waiting" THEN 1 ELSE 0)
    + joins[s]

(***************************************************************************)
(* C15: the JoinHandle of a deferred subscription's worker is at every     *)
(* moment either held by exactly one party or consumed by exactly one      *)
(* join, never consumed twice and never lost; and whatever handle          *)
(* operations are called, once the handle has given it away (join,         *)
(* unsubscribe_and_wait, detach or the discard) the worker of a            *)
(* terminating producer is eventually joined, exactly once.                *)
(***************************************************************************)
C15_JoinedExactlyOnce ==
    /\ [](\A s \in SubIds :
             (Deferred /\ Subscribed(s)) => JoinHandleHeld(s) = 1 /\ joins[s] <= 1)
    /\ <>[](\A s \in SubIds :
               (Deferred /\ Subscribed(s) /\ handle[s] = "None") => joins[s] = 1)

\* unsubscribe(), then the handle was discarded while the worker was still
\* running, and the background waiter has joined the worker
C15_Witness ==
    /\ Deferred
    /\ unsubDone[1]
    /\ hstate[1] = "dropped"
    /\ waiter[1] = "done"
    /\ joins[1] = 1
    /\ Len(obs.prog) = 3

\* the state of the worker thread of s and of the computation it drives
WorkerOf(s) == <<wstate[s], wpc[s], wphase[s], latch[s]>>

(***************************************************************************)
(* C16: every subscribe call on a deferred stream starts exactly one       *)
(* worker thread and a subscribe call on an immediate stream starts none:  *)
(* the threads started are the workers of the subscriptions, one each.  A  *)
(* step of one subscription's worker advances that subscription's deferred *)
(* computation only: it moves no other subscription's computation and      *)
(* delivers to no other subscription's callbacks.                          *)
(***************************************************************************)
C16_OneWorkerPerSubscribe ==
    /\ [](/\ workersStarted = Cardinality({s \in SubIds : wstate[s] # "none"})
          /\ Deferred => workersStarted = nsub
          /\ Immediate => workersStarted = 0)
    /\ [][\A s, t \in SubIds :
             (s # t /\ Running(s) /\ WorkerOf(s)' # WorkerOf(s)) =>
                 /\ WorkerOf(t)' = WorkerOf(t)
                 /\ delivered'[t] = delivered[t]]_vars

\* two subscriptions of one deferred stream: the first worker has finished
\* and delivered, the second has not yet started on its own computation
C16_Witness ==
    /\ Deferred
    /\ nsub = 2
    /\ workersStarted = 2
    /\ wstate[1] = "exited"
    /\ Len(delivered[1]) = 1
    /\ wstate[2] = "running"
    /\ wpc[2] = 1
    /\ delivered[2] = <<>>

(***************************************************************************)
(* C17: cancellation is cooperative only.  unsubscribe() on a deferred     *)
(* subscription changes nothing of the worker; for a producer that never   *)
(* reads liveness the worker, whatever the flag says, is never blocked     *)
(* while it runs and leaves its loop only after the producer has executed  *)
(* every one of its statements: clearing liveness keeps callbacks from     *)
(* being delivered and does nothing else.                                  *)
(***************************************************************************)
C17_CooperativeOnly ==
    /\ [](\A s \in SubIds :
             (Deferred /\ Subscribed(s)) =>
                 /\ wstate[s] = "running" => ENABLED Worker(s)
                 /\ wstate[s] = "exited" => wpc[s] = Len(obs.prog) + 1)
    /\ [][\A s \in SubIds :
             (Deferred /\ ~unsubDone[s] /\ unsubDone'[s]) =>
                 /\ WorkerOf(s)' = WorkerOf(s)
                 /\ delivered' = delivered]_vars

\* unsubscribe() came before the first callback: the producer has still run
\* its three calls to the end, and none was delivered
C17_Witness ==
    /\ Deferred
    /\ unsubDone[1]
    /\ ~active[1]
    /\ wstate[1] = "exited"
    /\ Len(obs.prog) = 3
    /\ ~Issues("pending")
    /\ wpc[1] = 4
    /\ delivered[1] = <<>>

\* callbacks a complete run of the producer issues: one per statement that
\* is a callback, and the forwarded error of a returned Err
IssuedByRun ==
    Cardinality({i \in DOMAIN obs.prog : obs.prog[i].op \in SyncOps})
    + (IF obs.ret = Ok THEN 0 ELSE 1)

(***************************************************************************)
(* C18: subscriptions are independent.  Every subscribe call on the same   *)
(* Observable calls the producer function once more, gives the new         *)
(* subscription a liveness flag of its own, set, and runs the producer     *)
(* from its first statement, touching no other subscription; no step       *)
(* changes the liveness of two subscriptions; and whatever happened to the *)
(* other handles, a subscription whose own liveness is set when its        *)
(* producer has finished got every callback of its run.                    *)
(***************************************************************************)
C18_ColdAndIndependent ==
    /\ [](/\ producerCalls = nsub
          /\ \A s \in SubIds :
                (Finished(s) /\ active[s]) => Len(delivered[s]) = IssuedByRun)
    /\ [][\A s, t \in SubIds :
             s # t =>
                 /\ (~Subscribed(s) /\ Subscribed(s)') =>
                       /\ active'[s]
                       /\ wpc'[s] = 1
                       /\ Immediate => delivered'[s] = RunSync(obs, TRUE)
                       /\ active'[t] = active[t]
                       /\ delivered'[t] = delivered[t]
                       /\ WorkerOf(t)' = WorkerOf(t)
                 /\ active'[s] # active[s] => active'[t] = active[t]]_vars

\* the first subscription was unsubscribed before its callback and got
\* nothing; the second, subscribed to the same Observable, got its whole run
C18_Witness ==
    /\ Deferred
    /\ nsub = 2
    /\ IssuedByRun = 2
    /\ unsubDone[1] /\ ~active[1]
    /\ wstate[1] = "exited" /\ delivered[1] = <<>>
    /\ active[2]
    /\ wstate[2] = "exited" /\ Len(delivered[2]) = 2

(***************************************************************************)
(* C19: map preserves the stream variant through any number of stages: a   *)
(* map call leaves the variant of the Observable as it is; subscribing to  *)
(* a mapped immediate stream runs the producer within the call, on the     *)
(* caller's thread, starts no worker and returns a Ready handle;           *)
(* subscribing to a mapped deferred stream delivers nothing within the     *)
(* call, starts exactly one worker and returns a Background handle.        *)
(***************************************************************************)
C19_MapKeepsVariant ==
    [][/\ obs.kind # "None" => obs'.kind = obs.kind
       /\ \A s \in SubIds :
             (obs.maps # <<>> /\ ~Subscribed(s) /\ Subscribed(s)') =>
                 /\ Immediate =>
                       /\ delivered'[s] = RunSync(obs, TRUE)
                       /\ handle'[s] = "None" /\ hflag'[s] = "own"
                       /\ wstate'[s] = "none"
                       /\ workersStarted' = workersStarted
                 /\ Deferred =>
                       /\ delivered'[s] = <<>>
                       /\ handle'[s] = "Some" /\ hflag'[s] = "shared"
                       /\ wstate'[s] = "running"
                       /\ workersStarted' = workersStarted + 1]_vars

\* a deferred stream mapped twice has just been subscribed
C19_Witness ==
    /\ Deferred
    /\ Len(obs.maps) = 2
    /\ Subscribed(1)
    /\ handle[1] = "Some"
    /\ hflag[1] = "shared"
    /\ wstate[1] = "running"
    /\ wpc[1] = 1
    /\ workersStarted = 1

\* next calls the producer of s has made so far
NextsIssued(s) ==
    IF ~Subscribed(s) THEN 0
    ELSE Cardinality({i \in DOMAIN obs.prog :
             /\ obs.prog[i].op = "next"
             /\ \/ Immediate
                \/ i < wpc[s]
                \/ i = wpc[s] /\ wphase[s] = "loaded"})

(***************************************************************************)
(* C20: map transforms only values.  Every error callback (signalled by    *)
(* the producer or forwarded for its returned Err) and every complete      *)
(* callback the subscriber of a mapped stream gets is exactly the one it   *)
(* gets from the unmapped stream, and the mapping functions have been      *)
(* applied once per stage to each next call of the producer and to nothing *)
(* else.                                                                   *)
(***************************************************************************)
C20_MapOnlyValues ==
    /\ \A s \in SubIds :
          \A i \in DOMAIN delivered[s] :
              LET e == delivered[s][i] IN
              e.cb \in {"error", "complete"} =>
                  e = IF e.idx <= Len(obs.prog)
                      THEN Signal(<<>>, obs.prog[e.idx], e.idx, e.th)
                      ELSE Forwarded(obs.ret, e.idx, e.th)
    /\ mapperCalls = Len(obs.maps) * (NextsIssued(1) + NextsIssued(2))

\* next(1), error(Signalled), Err(Returned) through map(f).map(g)
C20_Witness ==
    /\ Deferred
    /\ obs.maps = <<"f", "g">>
    /\ obs.ret = Returned
    /\ Len(delivered[1]) = 3
    /\ delivered[1][1].cb = "next" /\ delivered[1][1].val = 3
    /\ delivered[1][2].cb = "error" /\ delivered[1][2].val = Signalled
    /\ delivered[1][3].cb = "error" /\ delivered[1][3].val = Returned
    /\ mapperCalls = 2

\* every observer of subscription s: the one subscribe built, the one each
\* map stage built around it, and a clone of each
ObserversOf(s) ==
    LET stages == {StageObserver(s, obs.maps, k) : k \in 1..(Len(obs.maps) + 1)}
    IN stages \cup {Clone(o) : o \in stages}

(***************************************************************************)
(* C21 (as claimed): all observers of one subscription share one liveness  *)
(* flag: is_active() returns the same value on the observer handed to the  *)
(* producer, on its clones and on the observer of every map stage, and it  *)
(* returns false on all of them once the handle's unsubscribe() has        *)
(* returned.                                                               *)
(***************************************************************************)
C21_OneFlagForAll ==
    \A s \in SubIds :
        Subscribed(s) =>
            \A o \in ObserversOf(s) :
                /\ is_active(o) = is_active(ProducerObserver(s, obs.maps))
                /\ unsubDone[s] => ~is_active(o)

(***************************************************************************)
(* C21 (amended): all observers of one subscription share one liveness     *)
(* flag: is_active() returns the same value on all of them, the value of   *)
(* the flag subscribe allocated; for a deferred subscription it returns    *)
(* false on all of them once the handle's unsubscribe() has returned.      *)
(***************************************************************************)
C21_OneFlagDeferredCleared ==
    \A s \in SubIds :
        Subscribed(s) =>
            \A o \in ObserversOf(s) :
                /\ is_active(o) = active[s]
                /\ (Deferred /\ unsubDone[s]) => ~is_active(o)

\* a deferred stream mapped twice, unsubscribed while its producer runs
C21_Witness ==
    /\ Deferred
    /\ Len(obs.maps) = 2
    /\ unsubDone[1]
    /\ wstate[1] = "running"
    /\ Cardinality(ObserversOf(1)) = 1
    /\ ~is_active(ProducerObserver(1, obs.maps))

(***************************************************************************)
(* C22: the liveness flag of a subscription is set when subscribe          *)
(* allocates it and from then on only ever changes from true to false, in  *)
(* a step of unsubscribe(), of unsubscribe_and_wait() or of the discard of *)
(* the handle and in no other step: after a stream has finished on its own *)
(* the flag is still true as long as none of the three was called.         *)
(***************************************************************************)
C22_OnlyDisposalClears ==
    /\ [](\A s \in SubIds :
             (Finished(s) /\ ~unsubDone[s] /\ uaw[s] = "no" /\ hstate[s] = "live") =>
                 active[s])
    /\ [][\A s \in SubIds :
             /\ (~Subscribed(s) /\ Subscribed(s)') => active'[s]
             /\ (Subscribed(s) /\ active'[s] # active[s]) =>
                   /\ active[s] /\ ~active'[s]
                   /\ \/ ~unsubDone[s] /\ unsubDone'[s]
                      \/ uaw[s] # uaw'[s]
                      \/ hstate[s] = "live" /\ hstate'[s] = "dropped"]_vars

\* a deferred stream has finished on its own and been joined: still live
C22_Witness ==
    /\ Deferred
    /\ wstate[1] = "exited"
    /\ joins[1] = 1
    /\ hstate[1] = "live"
    /\ obs.ret = Returned
    /\ Len(delivered[1]) = 4
    /\ active[1]

C24_PanicIsNotAnError ==
    /\ [](\A s \in SubIds :
            /\ (Subscribed(s) /\ BodyPanics(obs)) =>
                  /\ \A k \in 1..Len(delivered[s]) :
                        delivered[s][k].idx < PanicPoint(obs)
                  /\ Immediate =>
                        hstate[s] = "unwound" /\ handle[s] = "None" /\ wstate[s] = "none"
                  /\ Deferred => wstate[s] \in {"running", "panicked"}
            /\ hstate[s] = "unwound" => Immediate /\ BodyPanics(obs)
            /\ wstate[s] = "panicked" => Deferred /\ BodyPanics(obs))
    /\ [][\A s \in SubIds :
            (mainWait = s /\ mainWait' = 0) =>
                (joinErr'[s] <=> wstate[s] = "panicked")]_vars

\* a join called on the handle of a deferred stream has returned the failure
\* of the worker a mapper panic terminated
C24_Witness ==
    \E s \in SubIds :
        /\ joinErr[s]
        /\ wstate[s] = "panicked"
        /\ \A k \in 1..Len(delivered[s]) : delivered[s][k].cb # "error"

\* the backup files of the log file that exist, numbered and timestamped
Backups == {name \in Names \ {LogFile} : fs[name].exists}
\* the messages whose write went to the log file
WrittenToLog == {k \in DOMAIN hist.fate : hist.fate[k] = "log"}

\* C25: with max_backups = N > 0, at most N backup files of the log file
\* exist after any sequence of rotations
C25_AtMostNBackups ==
    handler.max_backups > 0 => Cardinality(Backups) <= handler.max_backups

\* C26: once perform_rotation has returned an error, the writer keeps
\* running and no message it then writes goes anywhere but the log file
C26_StillWrittenToLogFile ==
    hist.rotFailed =>
        /\ writer.pc = "exited" => handler.state \in {"joining", "dropped"}
        /\ \A k \in DOMAIN hist.fate : hist.fate[k] # "null"

\* C27: when drop of a started handler has returned, the writer thread has
\* exited after receiving every message passed to log(), in the order logged
C27_DropLosesNothing ==
    (handler.state = "dropped" /\ writer.pc # "idle") =>
        /\ writer.pc = "exited"
        /\ hist.processed = [k \in 1..Len(hist.logged) |-> hist.logged[k].id]

\* C28: the shared counter never decreases and always equals the number of
\* messages successfully written to the log file
C28_CounterIsWrittenMessages ==
    /\ [](log_count = Cardinality(WrittenToLog))
    /\ [][log_count' >= log_count]_vars

\* C29: a rotation archives the log file under a name no existing backup
\* has: no backup that exists is replaced by the archive step
C29_ArchiveNameIsNew ==
    [][\A t \in 0..MaxClock :
          fs[Stamped(t)].exists => fs'[Stamped(t)] = fs[Stamped(t)]]_vars

\* C30: the middleware forwards a request only if its session_id cookie names
\* a session a successful login created, that logout and cleanup have not
\* removed and that has not expired; every other request is answered 401 and
\* the wrapped service is not called
C30_OnlyLiveSessionsPass ==
    [][lastCall'.n # lastCall.n =>
          LET c == lastCall'.cookie
              live == /\ c.present
                      /\ authHist[c.value].created
                      /\ ~authHist[c.value].removed
                      /\ now < authHist[c.value].at + SessionTicks
          IN /\ lastCall'.status = "forwarded" =>
                    live /\ serviceCalls' = serviceCalls + 1
             /\ ~live => lastCall'.status = "401" /\ serviceCalls' = serviceCalls]_vars

\* a request carrying the cookie of a session that passed earlier is answered
\* 401 once the session has expired, the session still being stored
C30_Witness ==
    /\ serviceCalls > 0
    /\ lastCall.status = "401"
    /\ lastCall.cookie.present
    /\ sessions[lastCall.cookie.value].present
    /\ is_expired(sessions[lastCall.cookie.value], now)

\* C31: once logout(id) has returned, verify_session(id) is SessionNotFound
\* for ever; logout reports session_found = true exactly when the session was
\* stored, so never again after a logout of the same id and never for an
\* unknown id; it changes no other session; a login with invalid credentials
\* stores no session
C31_LogoutIsFinal ==
    /\ [](\A k \in SessionIds :
            authHist[k].loggedOut =>
                verify_session(sessions, k, now) = "SessionNotFound")
    /\ [][authReply'.seq # authReply.seq =>
            LET id == authReply'.id
            IN /\ authReply'.op = "logout" =>
                     /\ authReply'.session_found <=> sessions[id].present
                     /\ (authHist[id].loggedOut \/ ~authHist[id].created) =>
                            ~authReply'.session_found
                     /\ \A k \in SessionIds \ {id} : sessions'[k] = sessions[k]
               /\ (authReply'.op = "login"
                     /\ authReply'.result = "InvalidCredentials") =>
                     sessions' = sessions]_vars

\* a second logout of a session that had not expired has reported
\* session_found = false, while another session is still stored
C31_Witness ==
    /\ authReply.op = "logout"
    /\ ~authReply.session_found
    /\ authHist[authReply.id].created
    /\ now < authHist[authReply.id].at + SessionTicks
    /\ \E k \in SessionIds \ {authReply.id} : sessions[k].present

\* C32: the worker polls in a loop and needs no wake-up: a poll that reports
\* Pending is followed by another poll, so a computation that reports Pending
\* finitely often and then finishes is driven to completion and the worker
\* exits; it exits only on a finished result, at the end of the body, and
\* once it has exited the computation is never polled again
C32_PolledToCompletion ==
    /\ [][\A s \in SubIds :
            /\ (wstate[s] = "running" /\ wstate'[s] = "exited") =>
                   wpc[s] > Len(obs.prog)
            /\ wstate[s] = "exited" =>
                   /\ wstate'[s] = "exited"
                   /\ wpc'[s] = wpc[s]
                   /\ wphase'[s] = wphase[s]
                   /\ delivered'[s] = delivered[s]]_vars
    /\ <>[](\A s \in SubIds : wstate[s] # "running")

\* a computation that reported Pending twice before it emitted and finished
\* has been driven to its end, and the worker has exited
C32_Witness ==
    /\ Len(obs.prog) = 3
    /\ obs.prog[1].op = "pending"
    /\ obs.prog[2].op = "pending"
    /\ obs.prog[3].op = "next"
    /\ wstate[1] = "exited"
    /\ wpc[1] = 4
    /\ Count(delivered[1], "next") = 1

\* C33: for every message the writer rotates exactly when current_size +
\* message_len > max_size_bytes; a successful rotation resets current_size to
\* 0 before the write; and after a write that follows a check that needed no
\* rotation or whose rotation succeeded, current_size is at most
\* max_size_bytes unless the message alone is longer than that
C33_SizeStaysWithinMax ==
    [][Len(hist'.processed) > Len(hist.processed) =>
          LET l == hist'.last
          IN /\ l.rotated <=> writer.current_size + l.len > MaxSize
             /\ l.rotOk =>
                   writer'.current_size = (IF l.wrote THEN l.len ELSE 0)
             /\ ((~l.rotated \/ l.rotOk) /\ l.wrote /\ l.len <= MaxSize) =>
                   writer'.current_size <= MaxSize]_vars

\* a message that did not fit was written to the fresh file after a successful
\* rotation: the tracked size is its length, the full file is archived
C33_Witness ==
    /\ hist.last.rotOk
    /\ hist.last.wrote
    /\ writer.current_size = hist.last.len
    /\ hist.last.len <= MaxSize
    /\ \E t \in 0..MaxClock : fs[Stamped(t)].exists /\ fs[Stamped(t)].data # <<>>

\* C34: when the producer of a mapped deferred stream emits a value while the
\* liveness flag is false, every mapping function of the chain is applied to
\* it all the same, and the user's next callback alone is skipped
C34_OnlyUserCallbackIsGated ==
    [][\A s \in SubIds :
          /\ (/\ AtStatement(s)
              /\ obs.prog[wpc[s]].op = "next"
              /\ wphase'[s] = "loaded"
              /\ ~active[s]) =>
                 /\ mapperCalls' = mapperCalls + Len(obs.maps)
                 /\ ~latch'[s]
          /\ (/\ wphase[s] = "loaded"
              /\ wphase'[s] = "poll"
              /\ ~latch[s]) =>
                 delivered'[s] = delivered[s]]_vars

\* a worker behind two map stages has finished after the flag was cleared: both
\* mappers ran on a value of which the subscriber saw nothing
C34_Witness ==
    /\ Len(obs.maps) = MaxMaps
    /\ wstate[1] = "exited"
    /\ ~active[1]
    /\ delivered[1] = <<>>
    /\ mapperCalls >= MaxMaps

\* a handle on which detach() (and nothing that stores to the flag) was called
\* has been discarded: its JoinHandle went to the waiter detach() spawned
DetachedThenDiscarded(s) ==
    /\ hstate[s] = "dropped"
    /\ ~discarded[s]
    /\ ~unsubDone[s]
    /\ uaw[s] = "no"
    /\ waiter[s] # "none"

\* C35: detach() leaves the liveness flag as it is, the discard of the handle
\* stores false in it, and once a detached handle has been discarded the
\* worker, if still running, delivers nothing more
C35_DetachedStreamEndsWithHandle ==
    [][\A s \in SubIds :
          Deferred =>
              /\ (hstate'[s] = "live" /\ waiter[s] = "none" /\ waiter'[s] = "waiting") =>
                    active'[s] = active[s]
              /\ (hstate[s] = "live" /\ hstate'[s] = "dropped") => ~active'[s]
              /\ DetachedThenDiscarded(s) => delivered'[s] = delivered[s]]_vars

\* C36: the handle subscribe returns for an immediate stream holds a flag of
\* its own, false from the start, which is not the flag of the observer; the
\* observer's flag was true at every callback of the producer call and stays
\* true whatever is called on the handle (unsubscribe, unsubscribe_and_wait,
\* discard)
C36_ReadyFlagIsNotTheObserversFlag ==
    \A s \in SubIds :
        (Immediate /\ Subscribed(s)) =>
            /\ hflag[s] = "own"
            /\ ~ownActive[s]
            /\ active[s]
            /\ \A o \in ObserversOf(s) : is_active(o)
            /\ delivered[s] = SyncDelivered(obs)

\* unsubscribe(), unsubscribe_and_wait() and the discard have all acted on the
\* handle of an immediate subscription; the observer's flag is still set
C36_Witness ==
    /\ Immediate
    /\ unsubDone[1]
    /\ uaw[1] = "returned"
    /\ hstate[1] = "dropped"
    /\ delivered[1] # <<>>
    /\ active[1]
    /\ ~ownActive[1]

\* C37: the engine issues no next and no complete of its own.  Every callback
\* a subscriber gets was issued by a statement of the producer, except an
\* error carrying the Err the producer returned; when the producer returns
\* Ok(()) the engine invokes nothing, so a producer that returns Ok(()) and
\* issued neither complete nor error leaves a subscription without a terminal
\* signal
C37_EngineIssuesOnlyReturnedErr ==
    /\ [](\A s \in SubIds :
            /\ \A i \in DOMAIN delivered[s] :
                  LET ev == delivered[s][i]
                  IN IF ev.idx <= Len(obs.prog)
                     THEN ev.cb = obs.prog[ev.idx].op
                     ELSE ev.cb = "error" /\ obs.ret # Ok /\ ev.val = obs.ret
            /\ (Finished(s) /\ obs.ret = Ok /\ ~Issues("complete") /\ ~Issues("error")) =>
                  Count(delivered[s], "complete") + Count(delivered[s], "error") = 0)
    /\ [][\A s \in SubIds :
            (obs.ret = Ok /\ AtEnd(s) /\ wstate'[s] = "exited") =>
                delivered'[s] = delivered[s]]_vars

\* a deferred computation that issued values only has returned Ok(()): its
\* live subscriber got the values and no terminal signal
C37_Witness ==
    /\ Deferred
    /\ obs.ret = Ok
    /\ wstate[1] = "exited"
    /\ active[1]
    /\ Count(delivered[1], "next") = Len(obs.prog)
    /\ Len(obs.prog) > 0
    /\ Count(delivered[1], "complete") + Count(delivered[1], "error") = 0

====
